---- MODULE Spec2Model ----
(***************************************************************************)
(* A model of the Piranha fork ketkarameya/piranha:                        *)
(*   - FlagCleaner::perform_cleanup, the project-level outer loop          *)
(*     (src/generic/piranha/src/piranha/flag_cleaner.rs)                   *)
(*   - SourceCodeUnit: apply_edit, its recovery, persist                   *)
(*     (src/polyglot/piranha/src/models/source_code_unit.rs)               *)
(*   - Rule::try_instantiate                                               *)
(*     (src/generic/piranha-tree-sitter/src/config.rs)                     *)
(* Text is a sequence of one-character strings.                            *)
(***************************************************************************)
EXTENDS Integers, Sequences, FiniteSets, TLC

(***************************************************************************)
(* Bounds of the model.                                                    *)
(***************************************************************************)
\* Rule applications the rule engine makes during one apply_rules call.
MaxEngineSteps == 2
\* Seed rules the store holds as global rules at start.
MaxSeedRules == 1
\* Extra nodes a tree holds.
MaxExtras == 2
\* apply_edit calls on the unit.
MaxEdits == 1
\* add_to_substitutions calls on the unit.
MaxAdds == 1
\* Characters of the longest toml file.
MaxTomlLen == 3
\* Bytes of the longest extra node.
MaxNodeLen == 2
\* Longest holes list of a rule.
MaxHoles == 2

(***************************************************************************)
(* Text helpers.                                                           *)
(***************************************************************************)
Range(s) == {s[i] : i \in 1..Len(s)}

\* str::contains / an unanchored match of a literal: pat is a substring of text.
Contains(text, pat) ==
  \E i \in 0..(Len(text) - Len(pat)) : SubSeq(text, i + 1, i + Len(pat)) = pat

TrueLit == <<"t", "r", "u", "e">>
FalseLit == <<"f", "a", "l", "s", "e">>

\* The order of characters that String's Ord uses (byte order), on the model's alphabet.
Alphabet == <<"a", "b", "e", "f", "l", "r", "s", "t", "u", "x", "|">>
CharRank(c) == CHOOSE i \in 1..Len(Alphabet) : Alphabet[i] = c

RECURSIVE StrLess(_, _)
StrLess(s, t) ==
  IF t = <<>> THEN FALSE
  ELSE IF s = <<>> THEN TRUE
  ELSE IF Head(s) = Head(t) THEN StrLess(Tail(s), Tail(t))
  ELSE CharRank(Head(s)) < CharRank(Head(t))

RECURSIVE InsertSorted(_, _)
InsertSorted(x, ss) ==
  IF ss = <<>> THEN <<x>>
  ELSE IF StrLess(x, Head(ss)) THEN <<x>> \o ss
  ELSE <<Head(ss)>> \o InsertSorted(x, Tail(ss))

\* Itertools::sorted: insertion sort; the sorted tail is bound as a value before
\* the head is inserted into it.
RECURSIVE Sorted(_)
Sorted(ss) ==
  IF ss = <<>> THEN <<>>
  ELSE CHOOSE r \in {InsertSorted(Head(ss), rest) : rest \in {Sorted(Tail(ss))}} : TRUE

\* Itertools::dedup: drops an element equal to the one before it.
RECURSIVE Dedup(_)
Dedup(ss) ==
  IF Len(ss) <= 1 THEN ss
  ELSE IF ss[1] = ss[2] THEN Dedup(Tail(ss))
  ELSE <<ss[1]>> \o Dedup(Tail(ss))

\* Iterator::filter on a sequence.
RECURSIVE FilterNotBool(_)
FilterNotBool(ss) ==
  IF ss = <<>> THEN <<>>
  ELSE IF Head(ss) # TrueLit /\ Head(ss) # FalseLit
       THEN <<Head(ss)>> \o FilterNotBool(Tail(ss))
       ELSE FilterNotBool(Tail(ss))

\* Itertools::join("|").
RECURSIVE JoinBar(_)
JoinBar(ss) ==
  IF ss = <<>> THEN <<>>
  ELSE IF Len(ss) = 1 THEN ss[1]
  ELSE ss[1] \o <<"|">> \o JoinBar(Tail(ss))

\* The alternatives of a regex that is an alternation of literals: the pieces
\* between the bars.  The empty regex has one alternative, the empty literal.
Alternatives(regx) ==
  LET cuts == {0, Len(regx) + 1} \cup {i \in 1..Len(regx) : regx[i] = "|"}
  IN  {SubSeq(regx, a + 1, b - 1) :
         <<a, b>> \in {p \in cuts \X cuts :
                         p[1] < p[2] /\ ~\E c \in cuts : p[1] < c /\ c < p[2]}}

\* Regex::is_match for an alternation of literals.
IsMatch(regx, text) == \E alt \in Alternatives(regx) : Contains(text, alt)

(***************************************************************************)
(* FlagCleaner: the state of perform_cleanup.                              *)
(***************************************************************************)
VARIABLES
  pc,              \* position in perform_cleanup: "loop", "for", "engine", "after_for", "done"
  disk,            \* the code base: path -> text of the file on disk
  io,              \* the code base: path -> what the walk and the reads of the file meet
  global_rules,    \* rule_store.global_rules(): the names of the global rules, in order
  current_rules,   \* the local current_rules of the running pass
  files,           \* the map returned by get_files_containing_feature_flag_api_usage
  todo,            \* the entries of files the for loop has not yet visited
  cur,             \* the path handed to apply_rules ("none" outside the call)
  relevant_files,  \* the cache path -> SourceCodeUnit (its code and substitutions)
  rs_input_substitutions,  \* rule_store.input_substitutions(): tag name -> text
  esteps,          \* rule applications made by the running apply_rules call
  pass_no,         \* history: passes begun
  pass_snapshot,   \* history: the store's global rules when the running pass began
  applied,         \* history: the global rules apply_rules applied during the running pass
  skipped,         \* history: the entries left unvisited when the last pass was cut short
  seed_rules       \* history: the store's global rules when perform_cleanup was entered

cleanerVars == <<pc, disk, io, global_rules, current_rules, files, todo, cur,
                 relevant_files, rs_input_substitutions, esteps, pass_no, pass_snapshot,
                 applied, skipped, seed_rules>>

(***************************************************************************)
(* SourceCodeUnit: the state of one unit, its parser and its file.         *)
(***************************************************************************)
VARIABLES
  u_pc,      \* "ready"; inside apply_edit's recovery: "step1", "step1_check", "step2", "step3"; "panic"
  u_code,    \* self.code
  u_ast,     \* self.ast: [src, err], the text it is the tree of and its error state
  u_parser,  \* the parser as a function text -> error state, fixed as texts are parsed
  u_iter,    \* the nodes traverse(c_ast.walk(), Order::Post) has yet to yield
  u_saved,   \* current_version_code
  u_file,    \* the file at self.path: [exists, text]
  u_edits,   \* apply_edit calls made
  u_last,    \* the last operation: "new", "dry", "edit" (running), "applied", "persist"
  u_ret,     \* the InputEdit the last apply_edit returned
  u_h,       \* history of the running or last apply_edit
  u_tags,    \* self.substitutions: tag name -> text
  input_substitutions,  \* the rule store's input substitutions: tag name -> text
  u_adds,    \* add_to_substitutions calls made
  u_t        \* history of the last add_to_substitutions: its argument, both maps before it

tagVars == <<u_tags, input_substitutions, u_adds, u_t>>

unitVars == <<u_pc, u_code, u_ast, u_parser, u_iter, u_saved, u_file, u_edits,
              u_last, u_ret, u_h, tagVars>>

(***************************************************************************)
(* Rule: one rule, a tag map and the outcome of instantiating it.          *)
(***************************************************************************)
VARIABLES
  r_pc,      \* "new"; "done" after try_instantiate; "panic" after instantiate's unwrap of an Err;
             \* "gh_done", "gh_panic" after add_grep_heuristics_for_seed_rules
  r_holes,   \* self.holes: [some, val]
  r_query,   \* self.query
  r_replace, \* self.replace
  r_tags,    \* substitutions: tag name -> bound text
  r_result,  \* the Result returned: ok, and the fields of the rule in it
  r_rest     \* self.name, replace_node, groups, constraint, grep_heuristics

ruleVars == <<r_pc, r_holes, r_query, r_replace, r_tags, r_result, r_rest>>

(***************************************************************************)
(* read_toml: one call of it on one file.                                  *)
(***************************************************************************)
VARIABLES
  t_pc,              \* "new"; "done" after a return; "panic"
  t_cond,            \* what File::open and read_to_string meet at file_path
  t_text,            \* the text of the file at file_path
  t_return_default,  \* return_default
  t_out              \* the outcome: [kind, val, path]

tomlVars == <<t_pc, t_cond, t_text, t_return_default, t_out>>

\* The variables each component leaves alone.
notCleaner == <<unitVars, ruleVars, tomlVars>>
notUnit == <<cleanerVars, ruleVars, tomlVars>>
notRule == <<cleanerVars, unitVars, tomlVars>>
notToml == <<cleanerVars, unitVars, ruleVars>>

(***************************************************************************)
(* Tag maps: HashMap<String, String>, tag name -> text.                    *)
(***************************************************************************)
\* "global_var_"
GlobalPrefix == <<"g", "l", "o", "b", "a", "l", "_", "v", "a", "r", "_">>

\* str::starts_with
starts_with(t, prefix) ==
  Len(prefix) <= Len(t) /\ SubSeq(t, 1, Len(prefix)) = prefix

\* The input substitutions a unit is constructed with.
InitTags ==
  { <<>>, (<<"a">> :> <<"x">>), (GlobalPrefix \o <<"a">> :> <<"x">>) }

\* The maps add_to_substitutions is called with; of the tag names one has the
\* prefix, one is a proper prefix of the prefix, one is without it.
NewEntries ==
  { <<>>,
    (GlobalPrefix \o <<"a">> :> <<"x">>),
    (<<"a">> :> <<"y">>),
    (GlobalPrefix \o <<"a">> :> <<"y">>) @@ (<<"a">> :> <<"x">>),
    (SubSeq(GlobalPrefix, 1, 6) :> <<"x">>) @@ (GlobalPrefix \o <<"a">> :> <<"x">>) }

\* HashMap::extend: the bindings of more are inserted, replacing the text of a
\* key already there.
Extend(map, more) ==
  [k \in DOMAIN map \cup DOMAIN more |-> IF k \in DOMAIN more THEN more[k] ELSE map[k]]

IsGlobalVar_all(k) == TRUE

\* the filter of add_to_substitutions
IsGlobalVar(k) == starts_with(k, GlobalPrefix)

\* global_substitutions
GlobalSubstitutions(new_entries) ==
  [k \in {x \in DOMAIN new_entries : IsGlobalVar(x)} |-> new_entries[k]]

\* RuleStore::add_to_input_substitutions
add_to_input_substitutions(store, more) == Extend(store, more)

\* The code base: two files of the target language and one of another.
PathA == [stem |-> "A", ext |-> "java"]
PathB == [stem |-> "B", ext |-> "java"]
PathC == [stem |-> "C", ext |-> "txt"]
Paths == {PathA, PathB, PathC}
NoPath == [stem |-> "", ext |-> ""]

\* What the files may hold on disk.
FileTexts == {<<"x">>, <<"a">>, <<"b">>, TrueLit}

\* rule_store.language_name()
LanguageName == "java"

\* The rules of the configuration that can become global, by name.
RuleNames == {"RA", "RB", "RT"}

\* Rule::grep_heuristics of each rule: the bound texts of its holes that occur in its query.
GrepHeuristicsOf(r) ==
  CASE r = "RA" -> << <<"a">> >>
    [] r = "RB" -> << <<"b">>, FalseLit >>
    [] r = "RT" -> << TrueLit >>

\* Injective sequences over S of length at most n.
InjSeqs(S, n) ==
  {s \in UNION {[1..k -> S] : k \in 0..n} : \A i, j \in 1..Len(s) : i # j => s[i] # s[j]}

\* flat_map(|r| r.grep_heuristics()) over a list of rules.
RECURSIVE FlatHeuristics(_)
FlatHeuristics(rs) ==
  IF rs = <<>> THEN <<>> ELSE GrepHeuristicsOf(Head(rs)) \o FlatHeuristics(Tail(rs))

\* The regex get_grep_heuristics builds from a list of global rules; each
\* stage of the iterator chain works on the value of the stage before it.
GrepPattern(rules) ==
  CHOOSE regx \in
    {JoinBar(kept) : kept \in
      {FilterNotBool(deduped) : deduped \in
        {Dedup(sorted) : sorted \in
          {Sorted(flat) : flat \in {FlatHeuristics(rules)}}}}} : TRUE

\* FlagCleaner::get_grep_heuristics: the regex over the store's global rules.
get_grep_heuristics == GrepPattern(global_rules)

\* The extension test of the walk.
HasLanguageExtension(p) == p.ext = LanguageName

\* What a path meets: no error; an error of the walk at its entry; an error
\* of File::open; an error of read_to_string after n bytes.
IoOk == [kind |-> "ok", n |-> 0]
IoErrors(text) ==
  {[kind |-> "walk_err", n |-> 0], [kind |-> "open_err", n |-> 0]}
    \cup {[kind |-> "read_err", n |-> k] : k \in 0..(Len(text) - 1)}

\* read_file: Err when File::open fails; the result of read_to_string is
\* dropped, so after an error of it the content is what was read before it.
read_file(cond, text) ==
  IF cond.kind = "open_err" THEN [ok |-> FALSE, val |-> <<>>]
  ELSE [ok |-> TRUE,
        val |-> IF cond.kind = "read_err" THEN SubSeq(text, 1, cond.n) ELSE text]

\* filter_map(|e| e.ok()): the entries the walk yields without error.
entries(p) == io[p].kind # "walk_err"

\* The entries that are read: those with the language's extension.
ReadPaths == {p \in Paths : entries(p) /\ HasLanguageExtension(p)}

\* read_file(..).unwrap() panics for one of the entries read.
WalkPanics == \E p \in ReadPaths : ~read_file(io[p], disk[p]).ok

\* The entries read whose content the pattern matches, with their content.
FilesMatching(pattern) ==
  [p \in {q \in ReadPaths : IsMatch(pattern, read_file(io[q], disk[q]).val)}
     |-> read_file(io[p], disk[p]).val]

\* FlagCleaner::get_files_containing_feature_flag_api_usage: the pattern is
\* built once, then the walk filters by it.
get_files_containing_feature_flag_api_usage ==
  CHOOSE fs \in {FilesMatching(pattern) : pattern \in {get_grep_heuristics}} : TRUE

\* FlagCleaner::get_updated_files: the paths of the units it returns.
get_updated_files == DOMAIN relevant_files

\* RuleStore::add_global_rule: insertion by rule name, idempotent.
add_global_rule(g) ==
  IF g \in Range(global_rules) THEN global_rules ELSE Append(global_rules, g)

EngineRules_live == global_rules

\* The rules perform_cleanup passes to apply_rules.
EngineRules == current_rules

NewRuleAdded_never == FALSE

\* The test after each file: a new global rule was added.
NewRuleAdded == Len(global_rules) > Len(current_rules)

NoNewRules_never == FALSE

NoNewRules_always == TRUE

\* The test after the for loop: no new global rule was added.
NoNewRules == Len(global_rules) = Len(current_rules)

\* text with the character at position i removed
RemoveAt(text, i) == SubSeq(text, 1, i - 1) \o SubSeq(text, i + 1, Len(text))

\* PiranhaArguments::new: the input substitutions a run starts with, the
\* bindings of stale_flag_name, treated, namespace and treated_complement.
SeedSubstitutions ==
  (<<"f">> :> <<"x">>) @@ (<<"t">> :> TrueLit) @@ (<<"n">> :> <<"x">>) @@ (<<"c">> :> FalseLit)

\* The captures one rule application may fold into the unit: none, a binding
\* of the file, a binding of a global_var_ tag.
EngineEntries ==
  { <<>>, (<<"a">> :> <<"y">>), (GlobalPrefix \o <<"a">> :> <<"a">>) }

\* SourceCodeUnit::new as the cleaner calls it: the content read and a copy of
\* the store's input substitutions.
SourceCodeUnit_new(content, substitutions) ==
  [code |-> content, substitutions |-> substitutions]

InitCleaner ==
  /\ pc = "loop"
  /\ disk \in {d \in [Paths -> FileTexts] : d[PathC] = <<"a">>}
  /\ io \in {[p \in Paths |-> IoOk]}
            \cup {[p \in Paths |-> IF p = PathA THEN e ELSE IoOk] : e \in IoErrors(disk[PathA])}
  /\ global_rules \in InjSeqs(RuleNames, MaxSeedRules) \ {<<>>}
  /\ current_rules = <<>>
  /\ files = <<>>
  /\ todo = {}
  /\ cur = NoPath
  /\ relevant_files = <<>>
  /\ rs_input_substitutions = SeedSubstitutions
  /\ esteps = 0
  /\ pass_no = 0
  /\ pass_snapshot = <<>>
  /\ applied = {}
  /\ skipped = {}
  /\ seed_rules = global_rules

\* The head of the outer loop: snapshot the global rules, walk the code base;
\* the unwrap of a failed read_file panics.
BeginPass ==
  /\ pc = "loop"
  /\ current_rules' = global_rules
  /\ IF WalkPanics
       THEN /\ pc' = "panic"
            /\ UNCHANGED <<files, todo>>
       ELSE /\ pc' = "for"
            /\ files' = get_files_containing_feature_flag_api_usage
            /\ todo' = DOMAIN get_files_containing_feature_flag_api_usage
  /\ pass_no' = pass_no + 1
  /\ pass_snapshot' = global_rules
  /\ applied' = {}
  /\ UNCHANGED <<disk, global_rules, cur, relevant_files, esteps, skipped>>
  /\ UNCHANGED <<io, rs_input_substitutions, seed_rules>>
  /\ UNCHANGED notCleaner

NextFile_rebuild ==
  /\ pc = "for"
  /\ \E p \in todo :
       /\ todo' = todo \ {p}
       /\ cur' = p
       /\ relevant_files' =
            (p :> SourceCodeUnit_new(files[p], rs_input_substitutions)) @@ relevant_files
  /\ pc' = "engine"
  /\ esteps' = 0
  /\ UNCHANGED <<disk, global_rules, current_rules, files, pass_no, pass_snapshot,
                 applied, skipped>>
  /\ UNCHANGED <<io, rs_input_substitutions, seed_rules>>
  /\ UNCHANGED notCleaner

\* The for loop takes the next entry (a HashMap iterates in any order) and
\* gets its unit, or on a cache miss creates it from the content read and the
\* store's input substitutions; apply_rules is entered.
NextFile ==
  /\ pc = "for"
  /\ \E p \in todo :
       /\ todo' = todo \ {p}
       /\ cur' = p
       /\ relevant_files' =
            IF p \in DOMAIN relevant_files THEN relevant_files
            ELSE (p :> SourceCodeUnit_new(files[p], rs_input_substitutions)) @@ relevant_files
  /\ pc' = "engine"
  /\ esteps' = 0
  /\ UNCHANGED <<disk, global_rules, current_rules, files, pass_no, pass_snapshot,
                 applied, skipped>>
  /\ UNCHANGED <<io, rs_input_substitutions, seed_rules>>
  /\ UNCHANGED notCleaner

\* One rule application inside apply_rules: a rule of the given list rewrites
\* the unit (here: removes one character), its captures are folded into the
\* unit by add_to_substitutions and, along a Global edge, it may promote a
\* rule g (g = "" : no Global edge fires).
EngineApply ==
  /\ pc = "engine"
  /\ esteps < MaxEngineSteps
  /\ \E r \in Range(EngineRules), g \in RuleNames \cup {""},
        i \in 1..Len(relevant_files[cur].code), new_entries \in EngineEntries :
       /\ relevant_files' =
            [relevant_files EXCEPT
               ![cur] = [code |-> RemoveAt(relevant_files[cur].code, i),
                         substitutions |-> Extend(relevant_files[cur].substitutions, new_entries)]]
       /\ rs_input_substitutions' =
            add_to_input_substitutions(rs_input_substitutions, GlobalSubstitutions(new_entries))
       /\ global_rules' = IF g = "" THEN global_rules ELSE add_global_rule(g)
       /\ applied' = applied \cup {r}
  /\ esteps' = esteps + 1
  /\ UNCHANGED <<pc, disk, current_rules, files, todo, cur, pass_no, pass_snapshot, skipped>>
  /\ UNCHANGED <<io, seed_rules>>
  /\ UNCHANGED notCleaner

\* apply_rules returns; the loop breaks when a global rule was added.
EngineReturn ==
  /\ pc = "engine"
  /\ cur' = NoPath
  /\ IF NewRuleAdded
       THEN /\ pc' = "after_for"
            /\ skipped' = todo
            /\ todo' = {}
       ELSE /\ pc' = "for"
            /\ UNCHANGED <<skipped, todo>>
  /\ UNCHANGED <<disk, global_rules, current_rules, files, relevant_files, esteps,
                 pass_no, pass_snapshot, applied>>
  /\ UNCHANGED <<io, rs_input_substitutions, seed_rules>>
  /\ UNCHANGED notCleaner

\* The for loop has visited every entry.
ForExhausted ==
  /\ pc = "for"
  /\ todo = {}
  /\ pc' = "after_for"
  /\ skipped' = {}
  /\ UNCHANGED <<disk, global_rules, current_rules, files, todo, cur, relevant_files,
                 esteps, pass_no, pass_snapshot, applied>>
  /\ UNCHANGED <<io, rs_input_substitutions, seed_rules>>
  /\ UNCHANGED notCleaner

\* After the for loop: return when no global rule was added, else loop.
EndPass ==
  /\ pc = "after_for"
  /\ pc' = IF NoNewRules THEN "done" ELSE "loop"
  /\ UNCHANGED <<disk, global_rules, current_rules, files, todo, cur, relevant_files,
                 esteps, pass_no, pass_snapshot, applied, skipped>>
  /\ UNCHANGED <<io, rs_input_substitutions, seed_rules>>
  /\ UNCHANGED notCleaner

(***************************************************************************)
(* perform_cleanup with one fixed configuration of rules, so that the only *)
(* choice left to a run is the order in which a pass visits its entries.   *)
(* The three rules: RA matches an "a" that begins the file, deletes it,    *)
(* captures a global_var_ tag and has a Global edge to RB; RB has that tag *)
(* as its hole and deletes the first "b"; RT deletes the first "t".        *)
(***************************************************************************)
\* What the files may hold on disk.
OrderTexts == {<<"a">>, <<"b", "a">>, <<"b">>, <<"x">>}

\* Rule::holes: the tags try_instantiate needs bound in the unit's substitutions.
RuleHoles(r) ==
  CASE r = "RA" -> {<<"f">>}
    [] r = "RB" -> {GlobalPrefix \o <<"a">>}
    [] r = "RT" -> {<<"t">>}

\* The first position of character c in text, 0 when there is none.
FirstIndex(text, c) ==
  IF \E i \in 1..Len(text) : text[i] = c
    THEN CHOOSE i \in 1..Len(text) : text[i] = c /\ \A j \in 1..(i - 1) : text[j] # c
    ELSE 0

\* The position of the rule's first match in the code, 0 when there is none.
QueryMatch(r, code) ==
  CASE r = "RA" -> IF code # <<>> /\ code[1] = "a" THEN 1 ELSE 0
    [] r = "RB" -> FirstIndex(code, "b")
    [] r = "RT" -> FirstIndex(code, "t")

\* The captures of a match of the rule.
Captures(r) == IF r = "RA" THEN (GlobalPrefix \o <<"a">> :> <<"a">>) ELSE <<>>

\* The target of the rule's Global edge ("" : it has none).
GlobalEdge(r) == IF r = "RA" THEN "RB" ELSE ""

\* RuleStore::add_global_rule on a list of global rules.
add_to_global_rules(rules, g) == IF g \in Range(rules) THEN rules ELSE Append(rules, g)

\* One rule of the list given to apply_rules, applied until it is not
\* instantiable or matches nothing; s holds the unit's code and
\* substitutions and the store's global rules and input substitutions.
RECURSIVE ApplyRule(_, _)
ApplyRule(r, s) ==
  IF ~(RuleHoles(r) \subseteq DOMAIN s.substitutions) \/ QueryMatch(r, s.code) = 0 THEN s
  ELSE ApplyRule(r,
         [code |-> RemoveAt(s.code, QueryMatch(r, s.code)),
          substitutions |-> Extend(s.substitutions, Captures(r)),
          input_substitutions |->
            add_to_input_substitutions(s.input_substitutions, GlobalSubstitutions(Captures(r))),
          global_rules |->
            IF GlobalEdge(r) = "" THEN s.global_rules
            ELSE add_to_global_rules(s.global_rules, GlobalEdge(r))])

\* apply_rules: the rules of the list, in order.
RECURSIVE apply_rules(_, _)
apply_rules(rules, s) ==
  IF rules = <<>> THEN s ELSE apply_rules(Tail(rules), ApplyRule(Head(rules), s))

\* The body of the for loop on one unit: apply_rules, then the test for a new
\* global rule; s holds the cache, the store's rules and its substitutions.
ProcessFile(s, rules, p, unit) ==
  LET r == apply_rules(rules, [code |-> unit.code, substitutions |-> unit.substitutions,
                               global_rules |-> s.global_rules,
                               input_substitutions |-> s.input_substitutions])
  IN  [units |-> (p :> [code |-> r.code, substitutions |-> r.substitutions]) @@ s.units,
       global_rules |-> r.global_rules,
       input_substitutions |-> r.input_substitutions]

InitOrder ==
  /\ pc = "loop"
  /\ disk \in {d \in [Paths -> OrderTexts] : d[PathC] = <<"a">>}
  /\ io = [p \in Paths |-> IoOk]
  /\ global_rules \in InjSeqs(RuleNames, MaxSeedRules) \ {<<>>}
  /\ current_rules = <<>>
  /\ files = <<>>
  /\ todo = {}
  /\ cur = NoPath
  /\ relevant_files = <<>>
  /\ rs_input_substitutions = SeedSubstitutions
  /\ esteps = 0
  /\ pass_no = 0
  /\ pass_snapshot = <<>>
  /\ applied = {}
  /\ skipped = {}
  /\ seed_rules = global_rules

\* The call of apply_rules on the current unit and the test that follows it.
ApplyRulesFixed ==
  /\ pc = "engine"
  /\ \E s \in {ProcessFile([units |-> relevant_files, global_rules |-> global_rules,
                            input_substitutions |-> rs_input_substitutions],
                           EngineRules, cur, relevant_files[cur])} :
       /\ relevant_files' = s.units
       /\ global_rules' = s.global_rules
       /\ rs_input_substitutions' = s.input_substitutions
       /\ IF Len(s.global_rules) > Len(current_rules)
            THEN /\ pc' = "after_for"
                 /\ skipped' = todo
                 /\ todo' = {}
            ELSE /\ pc' = "for"
                 /\ UNCHANGED <<skipped, todo>>
  /\ cur' = NoPath
  /\ UNCHANGED <<disk, current_rules, files, esteps, pass_no, pass_snapshot, applied>>
  /\ UNCHANGED <<io, seed_rules>>
  /\ UNCHANGED notCleaner

(***************************************************************************)
(* SourceCodeUnit: apply_edit, its recovery, persist.                      *)
(* The parser is any function of the text.  The model fixes it as the code *)
(* looks at it: the error state of a text's tree when the text is parsed   *)
(* (the same text parses to the same state ever after), the extra nodes of *)
(* a tree when the recovery traverses it.                                  *)
(***************************************************************************)
\* The texts a unit is constructed from.
InitCodes ==
  { <<"[", "a", ",", ",">>,
    <<"a", ",">>,
    <<",", "a", " ", ",">>,
    <<"a">> }

\* The replacement strings of the edits.
Replacements == { <<>>, <<",">> }

\* The edits of a text: a byte range [s, e) of it, zero-based and not empty,
\* and a replacement no longer than the range.
Edits(code) ==
  {ed \in (0..Len(code)) \X (0..Len(code)) \X Replacements :
     ed[1] < ed[2] /\ Len(ed[3]) <= ed[2] - ed[1]}

\* The state of a tree's root: no error ("ok"), an error with an ERROR node
\* in the tree ("error"), an error with MISSING nodes only ("missing").
ErrorStates == {"ok", "missing", "error"}

\* Parser::parse: a text parsed before gives the tree it gave before.
ParseChoices(text) ==
  IF text \in DOMAIN u_parser THEN {u_parser[text]} ELSE ErrorStates

Remember(memo, text, v) == (text :> v) @@ memo

\* A node's byte range [s, e) of the text, zero-based.
NodeRanges(text) ==
  {r \in [s : 0..Len(text), e : 0..Len(text)] : r.s < r.e /\ r.e <= r.s + MaxNodeLen}

\* traverse(tree.walk(), Order::Post), the extra nodes of it: nodes that follow
\* one another in the text.  They are fixed when the tree is traversed.
TraverseChoices(text) ==
  {ys \in UNION {[1..m -> NodeRanges(text)] : m \in 0..MaxExtras} :
     \A j \in 1..(Len(ys) - 1) : ys[j].e <= ys[j + 1].s}

\* Node::utf8_text
NodeText(text, n) == SubSeq(text, n.s + 1, n.e)

has_error_always(tree) == TRUE

\* Node::has_error of the root
has_error(tree) == tree.err # "ok"

any_is_error_never(tree) == FALSE

\* traverse(..).any(|n| n.is_error())
any_is_error(tree) == tree.err = "error"

\* get_tree_sitter_edit: the new source code
Splice(code, s, e, repl) == SubSeq(code, 1, s) \o repl \o SubSeq(code, e + 1, Len(code))

\* get_tree_sitter_edit: the InputEdit
InputEdit(s, e, repl) == [start_byte |-> s, old_end_byte |-> e, new_end_byte |-> s + Len(repl)]

RECURSIVE StripWs(_)
StripWs(t) ==
  IF t = <<>> THEN <<>>
  ELSE IF Head(t) \in {"\n", " "} THEN StripWs(Tail(t))
  ELSE <<Head(t)>> \o StripWs(Tail(t))

\* eq_without_whitespace
eq_without_whitespace(s1, s2) == StripWs(s1) = StripWs(s2)

\* The class \s of the regex crate, on the model's characters.
IsWs(c) == c \in {" ", "\n", "\t"}

\* The first position from i on that holds no whitespace (Len(t) + 1 if none).
RECURSIVE SkipWs(_, _)
SkipWs(t, i) == IF i <= Len(t) /\ IsWs(t[i]) THEN SkipWs(t, i + 1) ELSE i

\* replace_all of the pattern first \s*\n*, by first: the leftmost matches, none
\* overlapping another.
RECURSIVE ReplaceRun(_, _, _)
ReplaceRun(t, first, i) ==
  IF i > Len(t) THEN <<>>
  ELSE IF t[i] = first /\ SkipWs(t, i + 1) <= Len(t) /\ t[SkipWs(t, i + 1)] = ","
       THEN <<first>> \o ReplaceRun(t, first, SkipWs(t, i + 1) + 1)
       ELSE <<t[i]>> \o ReplaceRun(t, first, i + 1)

\* consecutive_comma_pattern.replace_all(.., ",")
CommaFix(t) == ReplaceRun(t, ",", 1)

\* square_bracket_comma_pattern.replace_all(.., "[")
SquareFix(t) == ReplaceRun(t, "[", 1)

RegexFixes_swapped(t) == CommaFix(SquareFix(t))

\* updated_content of recovery step 2
RegexFixes(t) == SquareFix(CommaFix(t))

RevertTo_kept(saved, now) == now

\* The text a failed attempt is undone to.
RevertTo(saved, now) == saved

PersistedFile_write(code, file) == [exists |-> TRUE, text |-> code]

\* The file after persist.
PersistedFile(code, file) ==
  IF code = <<>> THEN [exists |-> FALSE, text |-> <<>>]
  ELSE [exists |-> TRUE, text |-> code]

NoAdd == [given |-> <<>>, tags |-> <<>>, store |-> <<>>]

NoHistory ==
  [before |-> <<>>, entry |-> <<>>, entry_nodes |-> <<>>, recovering |-> FALSE,
   tried |-> <<>>, kept |-> FALSE, s2 |-> "none", s2in |-> <<>>]

\* SourceCodeUnit::new on the text of a file.
InitUnit ==
  /\ u_pc = "ready"
  /\ u_code \in InitCodes
  /\ u_ast \in {[src |-> u_code, err |-> k] : k \in ErrorStates}
  /\ u_parser = (u_code :> u_ast.err)
  /\ u_iter = <<>>
  /\ u_saved = <<>>
  /\ u_file = [exists |-> TRUE, text |-> u_code]
  /\ u_edits = 0
  /\ u_last = "new"
  /\ u_ret = InputEdit(0, 0, <<>>)
  /\ u_h = NoHistory
  /\ input_substitutions \in InitTags
  /\ u_tags = input_substitutions
  /\ u_adds = 0
  /\ u_t = NoAdd

ApplyEditDry_replace ==
  /\ u_pc = "ready"
  /\ u_edits < MaxEdits
  /\ \E ed \in Edits(u_code) :
       /\ u_ret' = InputEdit(ed[1], ed[2], ed[3])
       /\ u_code' = Splice(u_code, ed[1], ed[2], ed[3])
  /\ u_edits' = u_edits + 1
  /\ u_last' = "dry"
  /\ UNCHANGED <<u_pc, u_ast, u_parser, u_iter, u_saved, u_file, u_h>>
  /\ UNCHANGED tagVars
  /\ UNCHANGED notUnit

\* apply_edit with do_not_replace: only the InputEdit is computed.
ApplyEditDry ==
  /\ u_pc = "ready"
  /\ u_edits < MaxEdits
  /\ \E ed \in Edits(u_code) : u_ret' = InputEdit(ed[1], ed[2], ed[3])
  /\ u_edits' = u_edits + 1
  /\ u_last' = "dry"
  /\ UNCHANGED <<u_pc, u_code, u_ast, u_parser, u_iter, u_saved, u_file, u_h>>
  /\ UNCHANGED tagVars
  /\ UNCHANGED notUnit

\* apply_edit: _apply_edit up to its call of the recovery, and the recovery's
\* first test, which starts the traversal of a tree with an error.
ApplyEdit ==
  /\ u_pc = "ready"
  /\ u_edits < MaxEdits
  /\ \E ed \in Edits(u_code) :
       LET new == Splice(u_code, ed[1], ed[2], ed[3])
       IN  /\ u_ret' = InputEdit(ed[1], ed[2], ed[3])
           /\ u_code' = new
           /\ \E k \in ParseChoices(new) :
                /\ u_ast' = [src |-> new, err |-> k]
                /\ u_parser' = Remember(u_parser, new, k)
                /\ IF k # "ok"
                     THEN \E ns \in TraverseChoices(new) :
                            /\ u_iter' = ns
                            /\ u_pc' = "step1"
                            /\ u_h' = [NoHistory EXCEPT !.before = u_code, !.entry = new,
                                                        !.entry_nodes = ns,
                                                        !.recovering = TRUE]
                     ELSE /\ u_iter' = <<>>
                          /\ u_pc' = "step2"
                          /\ u_h' = [NoHistory EXCEPT !.before = u_code, !.entry = new]
  /\ u_edits' = u_edits + 1
  /\ u_last' = "edit"
  /\ UNCHANGED <<u_saved, u_file>>
  /\ UNCHANGED tagVars
  /\ UNCHANGED notUnit

\* Step 1, an extra node that is not a lone comma: the traversal moves on.
Step1Skip ==
  /\ u_pc = "step1"
  /\ u_iter # <<>>
  /\ ~eq_without_whitespace(NodeText(u_code, Head(u_iter)), <<",">>)
  /\ u_iter' = Tail(u_iter)
  /\ UNCHANGED <<u_pc, u_code, u_ast, u_parser, u_saved, u_file, u_edits,
                 u_last, u_ret, u_h>>
  /\ UNCHANGED tagVars
  /\ UNCHANGED notUnit

\* Step 1, an extra comma: its range is deleted and the text parsed again.
Step1Try ==
  /\ u_pc = "step1"
  /\ u_iter # <<>>
  /\ eq_without_whitespace(NodeText(u_code, Head(u_iter)), <<",">>)
  /\ LET n == Head(u_iter)
         new == Splice(u_code, n.s, n.e, <<>>)
     IN  \E k \in ParseChoices(new) :
           /\ u_saved' = u_code
           /\ u_code' = new
           /\ u_ast' = [src |-> new, err |-> k]
           /\ u_parser' = Remember(u_parser, new, k)
           /\ u_h' = [u_h EXCEPT !.tried = Append(u_h.tried, n)]
  /\ u_iter' = Tail(u_iter)
  /\ u_pc' = "step1_check"
  /\ UNCHANGED <<u_file, u_edits, u_last, u_ret>>
  /\ UNCHANGED tagVars
  /\ UNCHANGED notUnit

Step1Check_stale_tree ==
  /\ u_pc = "step1_check"
  /\ IF has_error(u_ast)
       THEN /\ u_code' = RevertTo(u_saved, u_code)
            /\ u_pc' = "step1"
            /\ UNCHANGED <<u_ast, u_parser, u_h, u_iter>>
       ELSE /\ u_pc' = "step2"
            /\ u_iter' = <<>>
            /\ u_h' = [u_h EXCEPT !.kept = TRUE]
            /\ UNCHANGED <<u_code, u_ast, u_parser>>
  /\ u_saved' = <<>>
  /\ UNCHANGED <<u_file, u_edits, u_last, u_ret>>
  /\ UNCHANGED tagVars
  /\ UNCHANGED notUnit

\* Step 1, after a deletion: undo it when the root is still errored, else
\* break; either way the block ends and current_version_code with it, and on
\* break the iterator.
Step1Check ==
  /\ u_pc = "step1_check"
  /\ IF has_error(u_ast)
       THEN \E k \in ParseChoices(RevertTo(u_saved, u_code)) :
              /\ u_code' = RevertTo(u_saved, u_code)
              /\ u_ast' = [src |-> RevertTo(u_saved, u_code), err |-> k]
              /\ u_parser' = Remember(u_parser, RevertTo(u_saved, u_code), k)
              /\ u_pc' = "step1"
              /\ UNCHANGED u_h
              /\ UNCHANGED u_iter
       ELSE /\ u_pc' = "step2"
            /\ u_iter' = <<>>
            /\ u_h' = [u_h EXCEPT !.kept = TRUE]
            /\ UNCHANGED <<u_code, u_ast, u_parser>>
  /\ u_saved' = <<>>
  /\ UNCHANGED <<u_file, u_edits, u_last, u_ret>>
  /\ UNCHANGED tagVars
  /\ UNCHANGED notUnit

\* Step 1, the traversal has ended.
Step1End ==
  /\ u_pc = "step1"
  /\ u_iter = <<>>
  /\ u_pc' = "step2"
  /\ UNCHANGED <<u_code, u_ast, u_parser, u_iter, u_saved, u_file, u_edits,
                 u_last, u_ret, u_h>>
  /\ UNCHANGED tagVars
  /\ UNCHANGED notUnit

\* Step 2: the two regex fixes, when the root is still errored; without an
\* error the recovery and apply_edit return.
Step2 ==
  /\ u_pc = "step2"
  /\ IF has_error(u_ast)
       THEN /\ IF RegexFixes(u_code) # u_code
                 THEN \E k \in ParseChoices(RegexFixes(u_code)) :
                        /\ u_code' = RegexFixes(u_code)
                        /\ u_ast' = [src |-> RegexFixes(u_code), err |-> k]
                        /\ u_parser' = Remember(u_parser, RegexFixes(u_code), k)
                 ELSE UNCHANGED <<u_code, u_ast, u_parser>>
            /\ u_pc' = "step3"
            /\ u_h' = [u_h EXCEPT !.s2 = "ran", !.s2in = u_code]
            /\ UNCHANGED u_last
       ELSE /\ u_pc' = "ready"
            /\ u_last' = "applied"
            /\ u_h' = [u_h EXCEPT !.s2 = "skipped", !.s2in = u_code]
            /\ UNCHANGED <<u_code, u_ast, u_parser>>
  /\ UNCHANGED <<u_iter, u_saved, u_file, u_edits, u_ret>>
  /\ UNCHANGED tagVars
  /\ UNCHANGED notUnit

\* Step 3: panic when the errored tree holds an ERROR node, else return.
Step3 ==
  /\ u_pc = "step3"
  /\ IF has_error(u_ast) /\ any_is_error(u_ast)
       THEN /\ u_pc' = "panic"
            /\ UNCHANGED u_last
       ELSE /\ u_pc' = "ready"
            /\ u_last' = "applied"
  /\ UNCHANGED <<u_code, u_ast, u_parser, u_iter, u_saved, u_file, u_edits,
                 u_ret, u_h>>
  /\ UNCHANGED tagVars
  /\ UNCHANGED notUnit

\* SourceCodeUnit::persist; remove_file of a file that is not there panics.
Persist ==
  /\ u_pc = "ready"
  /\ IF u_code = <<>> /\ ~u_file.exists
       THEN /\ u_pc' = "panic"
            /\ UNCHANGED <<u_file, u_last>>
       ELSE /\ u_file' = PersistedFile(u_code, u_file)
            /\ u_last' = "persist"
            /\ UNCHANGED u_pc
  /\ UNCHANGED <<u_code, u_ast, u_parser, u_iter, u_saved, u_edits, u_ret, u_h>>
  /\ UNCHANGED tagVars
  /\ UNCHANGED notUnit

\* SourceCodeUnit::add_to_substitutions
AddToSubstitutions ==
  /\ u_pc = "ready"
  /\ u_adds < MaxAdds
  /\ \E new_entries \in NewEntries :
       /\ u_tags' = Extend(u_tags, new_entries)
       /\ input_substitutions' =
            add_to_input_substitutions(input_substitutions, GlobalSubstitutions(new_entries))
       /\ u_t' = [given |-> new_entries, tags |-> u_tags, store |-> input_substitutions]
  /\ u_adds' = u_adds + 1
  /\ UNCHANGED <<u_pc, u_code, u_ast, u_parser, u_iter, u_saved, u_file, u_edits,
                 u_last, u_ret, u_h>>
  /\ UNCHANGED notUnit

(***************************************************************************)
(* Rule::try_instantiate and Rule::instantiate.                            *)
(***************************************************************************)
\* Names of tags.
TagNames == { <<"a">>, <<"a", "b">> }

\* The texts tags are bound to.
BoundTexts == { <<"x">>, <<"b">>, <<"@", "a">> }

\* The query templates of the rules.
Queries == { <<"@", "a">>, <<"@", "a", "b">>, <<"x">> }

\* The replace templates of the rules.
ReplaceTemplates == { <<"@", "a">>, <<>> }

\* Option::None and Option::Some
None == [some |-> FALSE, val |-> <<>>]
Some(v) == [some |-> TRUE, val |-> v]

\* Option<Vec<String>>
HolesLists ==
  {None}
    \cup {Some(v) : v \in UNION {[1..m -> TagNames] : m \in 0..MaxHoles}}

\* TagMatches: a map with unique keys.
TagMaps == UNION {[d -> BoundTexts] : d \in SUBSET TagNames}

\* str::replace: every occurrence of pat, from the left, none overlapping another.
RECURSIVE ReplaceAll(_, _, _)
ReplaceAll(t, pat, by) ==
  IF Len(t) < Len(pat) THEN t
  ELSE IF SubSeq(t, 1, Len(pat)) = pat
       THEN by \o ReplaceAll(SubSeq(t, Len(pat) + 1, Len(t)), pat, by)
       ELSE <<Head(t)>> \o ReplaceAll(Tail(t), pat, by)

\* The orders in which a map's keys can be visited.
KeyOrders(m) ==
  {o \in InjSeqs(DOMAIN m, Cardinality(DOMAIN m)) : Len(o) = Cardinality(DOMAIN m)}

\* substitute_tags: every occurrence of @k becomes tags[k], one key after
\* another in the order given.
RECURSIVE substitute_tags(_, _, _)
substitute_tags(t, m, order) ==
  IF order = <<>> THEN t
  ELSE substitute_tags(ReplaceAll(t, <<"@">> \o Head(order), m[Head(order)]), m, Tail(order))

relevant_substitutions_all(holes, subs) == subs

\* The map collected from the holes the substitutions bind.
relevant_substitutions(holes, subs) ==
  [h \in {holes[i] : i \in 1..Len(holes)} \cap DOMAIN subs |-> subs[h]]

\* The other fields of the rules: name, replace_node, groups, constraint and
\* grep_heuristics; the constraint of the second holds the hole @a.
RestOfRules ==
  { [name |-> "r1", replace_node |-> "n1", groups |-> None, constraint |-> None,
     grep_heuristics |-> None],
    [name |-> "r2", replace_node |-> "n2",
     groups |-> Some(<<"Feature-flag API cleanup">>),
     constraint |-> Some([matcher |-> <<"@", "a">>, predicate |-> "All",
                          queries |-> << <<"@", "a">> >>]),
     grep_heuristics |-> Some(<< <<"x">> >>)] }

\* self.clone(), as the rule of an Ok
clone ==
  [ok |-> TRUE, name |-> r_rest.name, query |-> r_query,
   replace_node |-> r_rest.replace_node, replace |-> r_replace,
   groups |-> r_rest.groups, holes |-> r_holes, constraint |-> r_rest.constraint,
   grep_heuristics |-> r_rest.grep_heuristics]

update_drops_constraint(query, replace) ==
  [clone EXCEPT !.query = query, !.replace = replace, !.constraint = None]

\* Rule::update
update(query, replace) ==
  [ok |-> TRUE, name |-> r_rest.name, query |-> query,
   replace_node |-> r_rest.replace_node, replace |-> replace,
   holes |-> r_holes, groups |-> r_rest.groups, constraint |-> r_rest.constraint,
   grep_heuristics |-> r_rest.grep_heuristics]

\* The Results try_instantiate can return.
try_instantiate ==
  IF r_holes.some
    THEN LET rel == relevant_substitutions(r_holes.val, r_tags)
         IN  IF Cardinality(DOMAIN rel) = Len(r_holes.val)
               THEN {update(substitute_tags(r_query, rel, o), substitute_tags(r_replace, rel, o)) :
                       o \in KeyOrders(rel)}
               ELSE {[clone EXCEPT !.ok = FALSE]}
    ELSE {clone}

NoResult ==
  [ok |-> FALSE, name |-> "", query |-> <<>>, replace_node |-> "", replace |-> <<>>,
   groups |-> None, holes |-> None, constraint |-> None, grep_heuristics |-> None]

InitRule ==
  /\ r_pc = "new"
  /\ r_holes \in HolesLists
  /\ r_query \in Queries
  /\ r_replace \in ReplaceTemplates
  /\ r_tags \in TagMaps
  /\ r_rest \in RestOfRules
  /\ r_result = NoResult

\* rule.try_instantiate(substitutions)
TryInstantiate ==
  /\ r_pc = "new"
  /\ r_result' \in try_instantiate
  /\ r_pc' = "done"
  /\ UNCHANGED <<r_holes, r_query, r_replace, r_tags, r_rest>>
  /\ UNCHANGED notRule

\* rule.instantiate(substitutions): try_instantiate(..).unwrap()
Instantiate ==
  /\ r_pc = "new"
  /\ r_result' \in try_instantiate
  /\ r_pc' = IF r_result'.ok THEN "done" ELSE "panic"
  /\ UNCHANGED <<r_holes, r_query, r_replace, r_tags, r_rest>>
  /\ UNCHANGED notRule

\* gh of add_grep_heuristics_for_seed_rules: for the holes in their order, the
\* bound text of a hole that is bound and whose text the query contains.
RECURSIVE GrepHeuristicsFor(_, _, _)
GrepHeuristicsFor(holes, subs, query) ==
  IF holes = <<>> THEN <<>>
  ELSE (IF Head(holes) \in DOMAIN subs /\ Contains(query, subs[Head(holes)])
          THEN <<subs[Head(holes)]>> ELSE <<>>)
       \o GrepHeuristicsFor(Tail(holes), subs, query)

\* rule.add_grep_heuristics_for_seed_rules(substitutions); holes.unwrap()
\* panics on a rule without a holes list.
AddGrepHeuristics ==
  /\ r_pc = "new"
  /\ IF r_holes.some
       THEN /\ r_rest' = [r_rest EXCEPT !.grep_heuristics =
                            Some(GrepHeuristicsFor(r_holes.val, r_tags, r_query))]
            /\ r_pc' = "gh_done"
       ELSE /\ r_pc' = "gh_panic"
            /\ UNCHANGED r_rest
  /\ UNCHANGED <<r_holes, r_query, r_replace, r_tags, r_result>>
  /\ UNCHANGED notRule

(***************************************************************************)
(* read_toml, with T a struct of one string field ip (TestStruct).         *)
(***************************************************************************)
\* The characters of the files.
TomlChars == {"k", "=", "v", "w"}

\* The texts of the files.
TomlTexts == UNION {[1..m -> TomlChars] : m \in 0..MaxTomlLen}

\* file_path
TomlPath == "sample.toml"

\* toml::from_str::<T>: a text is a value of T when it is the key, the equals
\* sign and a string; any other text is an error.
from_str(text) ==
  IF Len(text) = 3 /\ text[1] = "k" /\ text[2] = "=" /\ text[3] \in {"v", "w"}
    THEN [ok |-> TRUE, val |-> [ip |-> text[3]]]
    ELSE [ok |-> FALSE, val |-> [ip |-> ""]]

\* T::default()
DefaultValue == [ip |-> ""]

read_toml_lenient(cond, text, return_default) ==
  LET content == read_file(cond, text)
      parsed == IF content.ok THEN from_str(content.val) ELSE [ok |-> FALSE, val |-> DefaultValue]
  IN  IF parsed.ok THEN [kind |-> "value", val |-> parsed.val, path |-> ""]
      ELSE [kind |-> "default", val |-> DefaultValue, path |-> ""]

\* read_toml: the value returned, or the panic and the path in its message.
read_toml(cond, text, return_default) ==
  LET content == read_file(cond, text)
      parsed == IF content.ok THEN from_str(content.val) ELSE [ok |-> FALSE, val |-> DefaultValue]
  IN  IF parsed.ok THEN [kind |-> "value", val |-> parsed.val, path |-> ""]
      ELSE IF return_default THEN [kind |-> "default", val |-> DefaultValue, path |-> ""]
      ELSE [kind |-> "panic", val |-> DefaultValue, path |-> TomlPath]

NoOutcome == [kind |-> "none", val |-> DefaultValue, path |-> ""]

InitToml ==
  /\ t_pc = "new"
  /\ t_text \in TomlTexts
  /\ t_cond \in {IoOk} \cup {e \in IoErrors(t_text) : e.kind # "walk_err"}
  /\ t_return_default \in BOOLEAN
  /\ t_out = NoOutcome

\* read_toml(file_path, return_default)
ReadToml ==
  /\ t_pc = "new"
  /\ t_out' = read_toml(t_cond, t_text, t_return_default)
  /\ t_pc' = IF t_out'.kind = "panic" THEN "panic" ELSE "done"
  /\ UNCHANGED <<t_cond, t_text, t_return_default>>
  /\ UNCHANGED notToml

(***************************************************************************)
(* The specifications: one per component, the others at rest.              *)
(***************************************************************************)
TomlIdle ==
  /\ t_pc = "idle"
  /\ t_cond = IoOk
  /\ t_text = <<>>
  /\ t_return_default = FALSE
  /\ t_out = NoOutcome

CleanerIdle ==
  /\ pc = "idle"
  /\ disk = <<>>
  /\ io = <<>>
  /\ global_rules = <<>>
  /\ current_rules = <<>>
  /\ files = <<>>
  /\ todo = {}
  /\ cur = NoPath
  /\ relevant_files = <<>>
  /\ rs_input_substitutions = <<>>
  /\ esteps = 0
  /\ pass_no = 0
  /\ pass_snapshot = <<>>
  /\ applied = {}
  /\ skipped = {}
  /\ seed_rules = <<>>

UnitIdle ==
  /\ u_pc = "idle"
  /\ u_code = <<>>
  /\ u_ast = [src |-> <<>>, err |-> "ok"]
  /\ u_parser = <<>>
  /\ u_iter = <<>>
  /\ u_saved = <<>>
  /\ u_file = [exists |-> FALSE, text |-> <<>>]
  /\ u_edits = 0
  /\ u_last = "none"
  /\ u_ret = InputEdit(0, 0, <<>>)
  /\ u_h = NoHistory
  /\ u_tags = <<>>
  /\ input_substitutions = <<>>
  /\ u_adds = 0
  /\ u_t = NoAdd

RuleIdle ==
  /\ r_pc = "idle"
  /\ r_holes = None
  /\ r_query = <<>>
  /\ r_replace = <<>>
  /\ r_tags = <<>>
  /\ r_rest = [name |-> "", replace_node |-> "", groups |-> None, constraint |-> None,
               grep_heuristics |-> None]
  /\ r_result = NoResult

vars == <<cleanerVars, unitVars, ruleVars, tomlVars>>

\* FlagCleaner::perform_cleanup on a code base.
Init == InitCleaner /\ io = [p \in Paths |-> IoOk] /\ UnitIdle /\ RuleIdle /\ TomlIdle

Next == BeginPass \/ NextFile \/ EngineApply \/ EngineReturn \/ ForExhausted \/ EndPass

Spec == Init /\ [][Next]_vars

\* FlagCleaner::perform_cleanup on a code base with an I/O error at one path.
InitIO == InitCleaner /\ io[PathA] # IoOk /\ UnitIdle /\ RuleIdle /\ TomlIdle

SpecIO == InitIO /\ [][Next]_vars

\* perform_cleanup as the one thread runs it: a step that can be taken is taken.
FairSpec == Init /\ [][Next]_vars /\ WF_vars(Next)

\* perform_cleanup with the fixed configuration of rules.
InitO == InitOrder /\ UnitIdle /\ RuleIdle /\ TomlIdle

NextO == BeginPass \/ NextFile \/ ApplyRulesFixed \/ ForExhausted \/ EndPass

SpecOrder == InitO /\ [][NextO]_vars

\* The operations of one SourceCodeUnit.
InitU == InitUnit /\ u_tags = <<>> /\ CleanerIdle /\ RuleIdle /\ TomlIdle

NextU ==
  \/ ApplyEditDry \/ ApplyEdit \/ Step1Skip \/ Step1Try \/ Step1Check \/ Step1End
  \/ Step2 \/ Step3 \/ Persist

SpecUnit == InitU /\ [][NextU]_vars

\* One SourceCodeUnit, its tag map and the store's input substitutions.
InitT == InitUnit /\ u_code = <<"a", ",">> /\ u_ast.err = "ok" /\ CleanerIdle /\ RuleIdle /\ TomlIdle

NextT ==
  \/ AddToSubstitutions
  \/ ApplyEditDry \/ ApplyEdit \/ Step1Skip \/ Step1Try \/ Step1Check \/ Step1End
  \/ Step2 \/ Step3 \/ Persist

SpecTags == InitT /\ [][NextT]_vars

\* The instantiation of one rule.
InitR == InitRule /\ CleanerIdle /\ UnitIdle /\ TomlIdle

NextR == TryInstantiate \/ Instantiate \/ AddGrepHeuristics

SpecRule == InitR /\ [][NextR]_vars

\* One call of read_toml.
InitToml1 == InitToml /\ CleanerIdle /\ UnitIdle /\ RuleIdle

NextToml == ReadToml

SpecToml == InitToml1 /\ [][NextToml]_vars

(***************************************************************************)
(* Claims about FlagCleaner::perform_cleanup, checked under Spec.          *)
(***************************************************************************)
\* The files the walk keeps for a list of global rules.
CandidatesFor(rules) ==
  {p \in Paths : p.ext = "java" /\ IsMatch(GrepPattern(rules), disk[p])}

\* C1: after each file the number of global rules is compared with the number
\* at the start of the pass; once it has grown no further file of the pass is
\* processed (the for loop is never again at its head in that pass, the files
\* left are skipped), and the pass that follows works on the heuristic and the
\* candidate files recomputed from the enlarged rule set.
C1_BreakAndRestart ==
  /\ pc = "for" => Len(global_rules) = Len(pass_snapshot)
  /\ (pc = "engine" /\ esteps = 0) => Len(global_rules) = Len(pass_snapshot)
  /\ (pc = "after_for" /\ Len(global_rules) = Len(pass_snapshot)) => todo = {} /\ skipped = {}
  /\ pc \in {"for", "engine", "after_for"} =>
       /\ current_rules = pass_snapshot
       /\ DOMAIN files = CandidatesFor(pass_snapshot)
       /\ \A p \in DOMAIN files : files[p] = disk[p]
       /\ todo \subseteq DOMAIN files

\* A second pass is running on a larger rule set after a pass that was cut
\* short with files left unvisited.
C1_Witness ==
  /\ pass_no = 2
  /\ pc = "for"
  /\ skipped # {}
  /\ Len(pass_snapshot) = 2
  /\ todo # {}

\* C2: the number of global rules never falls below the number at the start of
\* the pass; perform_cleanup has returned only after a pass that ended with the
\* number it started with, and is back at the loop head only after a pass that
\* added a rule.
C2_MonotoneAndExit ==
  /\ Len(global_rules) >= Len(pass_snapshot)
  /\ pc = "done" => Len(global_rules) = Len(pass_snapshot)
  /\ (pc = "loop" /\ pass_no > 0) => Len(global_rules) > Len(pass_snapshot)

\* perform_cleanup returned after more than one pass.
C2_Witness == pc = "done" /\ pass_no >= 2 /\ Len(global_rules) = 3

\* C3: every apply_rules call of a pass is given the global rules snapshotted
\* at the start of the pass, and no rule promoted during the pass is applied
\* to any file in that pass.
C3_SnapshotOnly ==
  /\ pc = "engine" => EngineRules = pass_snapshot
  /\ applied \subseteq Range(pass_snapshot)
  /\ applied \cap (Range(global_rules) \ Range(pass_snapshot)) = {}

\* A rule was promoted in the middle of an apply_rules call that goes on
\* applying rules.
C3_Witness ==
  /\ pc = "engine"
  /\ esteps = 1
  /\ Range(global_rules) # Range(pass_snapshot)
  /\ relevant_files[cur].code # <<>>

\* C4: a file is handed to the rule engine only if it has the language's
\* extension and its text on disk contains a grep heuristic of the active
\* global rules other than "true" and "false".
C4_GrepSound ==
  pc = "engine" =>
    /\ cur.ext = "java"
    /\ \E h \in Range(FlatHeuristics(pass_snapshot)) \ {TrueLit, FalseLit} :
         Contains(disk[cur], h)

(***************************************************************************)
(* Claims about SourceCodeUnit, checked under SpecUnit.                    *)
(***************************************************************************)
\* The nodes of ns whose text is a comma, in the order of ns.
RECURSIVE CommaNodes(_, _)
CommaNodes(text, ns) ==
  IF ns = <<>> THEN <<>>
  ELSE IF eq_without_whitespace(NodeText(text, Head(ns)), <<",">>)
       THEN <<Head(ns)>> \o CommaNodes(text, Tail(ns))
       ELSE CommaNodes(text, Tail(ns))

\* text without the range of node n
Without(text, n) == Splice(text, n.s, n.e, <<>>)

\* C5: whenever apply_edit returns normally, the root of the unit's tree
\* carries no syntax error, whatever kind of error the parser reported.
C5_ReturnsErrorFree ==
  (u_pc = "ready" /\ u_last = "applied") => ~has_error(u_ast)

\* C8: after persist, a unit with empty code has no file, and a unit with
\* other code has a file holding exactly that code; no file is ever empty.
C8_Persist ==
  /\ (u_pc = "ready" /\ u_last = "persist") =>
       IF u_code = <<>> THEN ~u_file.exists
       ELSE u_file.exists /\ u_file.text = u_code
  /\ u_file.exists => u_file.text # <<>>

C8_Witness ==
  /\ u_pc = "ready"
  /\ u_last = "persist"
  /\ u_edits > 0
  /\ u_code = <<>>
  /\ ~u_file.exists

\* C9: in recovery step 1 the extra commas of the errored tree are tried in
\* post-order, one at a time, each by deleting its range; the text is the
\* text at entry whenever the next comma is tried, every attempt but the last
\* left the root errored, and step 1 ends either with the first deletion that
\* cleared the error kept, or with all commas tried and the text at entry.
C9_Step1 ==
  u_h.recovering =>
    /\ \A j \in 1..(Len(u_h.tried) - 1) :
         /\ Without(u_h.entry, u_h.tried[j]) \in DOMAIN u_parser
         /\ u_parser[Without(u_h.entry, u_h.tried[j])] # "ok"
    /\ u_pc = "step1" =>
         /\ u_code = u_h.entry
         /\ u_ast.src = u_code
         /\ has_error(u_ast)
         /\ ~u_h.kept
         /\ u_h.tried \o CommaNodes(u_h.entry, u_iter) = CommaNodes(u_h.entry, u_h.entry_nodes)
    /\ u_pc = "step1_check" =>
         /\ u_h.tried # <<>>
         /\ u_saved = u_h.entry
         /\ u_code = Without(u_h.entry, u_h.tried[Len(u_h.tried)])
         /\ u_ast.src = u_code
         /\ u_h.tried \o CommaNodes(u_h.entry, u_iter) = CommaNodes(u_h.entry, u_h.entry_nodes)
    /\ (u_pc = "step2" /\ u_h.kept) =>
         /\ u_h.tried # <<>>
         /\ u_code = Without(u_h.entry, u_h.tried[Len(u_h.tried)])
         /\ ~has_error(u_ast)
    /\ (u_pc = "step2" /\ ~u_h.kept) =>
         /\ u_code = u_h.entry
         /\ has_error(u_ast)
         /\ u_h.tried = CommaNodes(u_h.entry, u_h.entry_nodes)

C9_Witness ==
  /\ u_pc = "step2"
  /\ u_h.recovering
  /\ u_h.kept
  /\ Len(u_h.tried) = 2
  /\ u_code = Without(u_h.entry, u_h.tried[2])

\* C10: recovery step 2 runs only on a root that is still errored; it leaves
\* the code with every comma-whitespace-comma run collapsed to a comma and
\* then every bracket-whitespace-comma run rewritten to the bracket, and the
\* tree is the parse of that code.
C10_Step2 ==
  /\ u_h.s2 = "ran" =>
       /\ u_h.s2in \in DOMAIN u_parser
       /\ u_parser[u_h.s2in] # "ok"
       /\ u_code = SquareFix(CommaFix(u_h.s2in))
       /\ u_ast.src = u_code
       /\ u_ast.err = u_parser[u_code]
  /\ u_h.s2 = "skipped" =>
       /\ u_parser[u_h.s2in] = "ok"
       /\ u_code = u_h.s2in
       /\ u_ast.src = u_code
  /\ u_pc = "step3" => u_h.s2 = "ran"

C10_Witness ==
  /\ u_pc = "step3"
  /\ u_h.s2 = "ran"
  /\ u_h.s2in = <<"[", ",", ",">>
  /\ u_code = <<"[">>

(***************************************************************************)
(* Claims about Rule::try_instantiate, checked under SpecRule.             *)
(***************************************************************************)
\* Every element of the rule's holes list is bound in the tag map.
AllHolesBound ==
  r_holes.some => \A i \in 1..Len(r_holes.val) : r_holes.val[i] \in DOMAIN r_tags

\* C6: try_instantiate returns Ok exactly when every element of the rule's
\* holes list is bound in the tag map.
C6_OkIffBound ==
  r_pc = "done" => (r_result.ok <=> AllHolesBound)

\* C7: the query of an instantiated rule whose holes are all bound holds no
\* occurrence of @h for a hole h of the rule.
C7_Closed ==
  (r_pc = "done" /\ r_result.ok /\ r_holes.some /\ AllHolesBound) =>
    \A i \in 1..Len(r_holes.val) : ~Contains(r_result.query, <<"@">> \o r_holes.val[i])

\* C11: when an ERROR node is left in the tree after recovery steps 1 and 2,
\* apply_edit does not return but aborts; an aborted unit takes no further
\* step, so it is not edited again and its code is not persisted.
C11_Step3Aborts ==
  /\ [](u_pc = "ready" /\ u_last = "applied" => u_ast.err # "error")
  /\ [][u_pc = "panic" => UNCHANGED unitVars]_vars

C11_Witness ==
  /\ u_pc = "panic"
  /\ u_h.s2 = "ran"
  /\ u_ast.err = "error"
  /\ u_file.text # u_code

(***************************************************************************)
(* Claims about the unit's tag map, checked under SpecTags.                *)
(***************************************************************************)
\* C12: a dry edit returns the descriptor of a range and replacement of the
\* code and leaves code, tree and tag map as they were; the unit is ready
\* again at once, with no recovery and no abort.
C12_DryEdit ==
  [][(u_edits' # u_edits /\ u_last' = "dry") =>
       /\ u_code' = u_code
       /\ u_ast' = u_ast
       /\ u_tags' = u_tags
       /\ u_pc' = "ready"
       /\ u_h' = u_h
       /\ \E ed \in Edits(u_code) :
            u_ret' = [start_byte |-> ed[1], old_end_byte |-> ed[2],
                      new_end_byte |-> ed[1] + Len(ed[3])]]_vars

C12_Witness ==
  /\ u_pc = "ready"
  /\ u_last = "dry"
  /\ u_edits > 0
  /\ u_tags # <<>>
  /\ u_code = <<"a", ",">>
  /\ u_ret = [start_byte |-> 1, old_end_byte |-> 2, new_end_byte |-> 1]

\* C13: after add_to_substitutions every given binding is in the unit's tag
\* map, and the store's input substitutions are those it had, extended by
\* exactly the given bindings whose tag name begins with "global_var_".
C13_Publish ==
  u_adds > 0 =>
    LET published == {k \in DOMAIN u_t.given : starts_with(k, GlobalPrefix)}
    IN  /\ \A k \in DOMAIN u_t.given : k \in DOMAIN u_tags /\ u_tags[k] = u_t.given[k]
        /\ DOMAIN input_substitutions = DOMAIN u_t.store \cup published
        /\ \A k \in DOMAIN input_substitutions :
             input_substitutions[k] = IF k \in published THEN u_t.given[k] ELSE u_t.store[k]

C13_Witness ==
  /\ u_adds > 0
  /\ DOMAIN u_t.given = {GlobalPrefix \o <<"a">>, SubSeq(GlobalPrefix, 1, 6)}
  /\ DOMAIN input_substitutions = {GlobalPrefix \o <<"a">>}
  /\ DOMAIN u_tags = DOMAIN u_t.given

\* C14: every binding the unit's tag map held before an add_to_substitutions
\* is still in it afterwards, with the same text.
C14_Monotone ==
  \A k \in DOMAIN u_t.tags : k \in DOMAIN u_tags /\ u_tags[k] = u_t.tags[k]

(***************************************************************************)
(* Further claims about Rule, checked under SpecRule.                      *)
(***************************************************************************)
\* C15: the rule in an Ok of try_instantiate has the name, replace_node,
\* holes, groups, grep_heuristics and constraint of the rule instantiated,
\* the constraint with its holes as they were; and no step of try_instantiate
\* or instantiate changes the rule it is called on.
C15_OnlyQueryAndReplace ==
  /\ []((r_pc = "done" /\ r_result.ok) =>
          /\ r_result.name = r_rest.name
          /\ r_result.replace_node = r_rest.replace_node
          /\ r_result.holes = r_holes
          /\ r_result.groups = r_rest.groups
          /\ r_result.grep_heuristics = r_rest.grep_heuristics
          /\ r_result.constraint = r_rest.constraint)
  /\ [][r_pc' \in {"done", "panic"} =>
          UNCHANGED <<r_holes, r_query, r_replace, r_rest>>]_vars

C15_Witness ==
  /\ r_pc = "done"
  /\ r_result.ok
  /\ r_holes = Some(<< <<"a">> >>)
  /\ r_query = <<"@", "a">>
  /\ r_result.query = <<"x">>
  /\ r_result.constraint.some
  /\ r_result.constraint.val.matcher = <<"@", "a">>

\* C16: add_grep_heuristics_for_seed_rules completes on every rule, and sets
\* grep_heuristics to the bound texts of the holes that are bound and whose
\* text occurs in the query.
C16_GrepHeuristics ==
  /\ r_pc # "gh_panic"
  /\ r_pc = "gh_done" =>
       /\ r_rest.grep_heuristics.some
       /\ Range(r_rest.grep_heuristics.val) =
            {r_tags[h] : h \in {x \in Range(r_holes.val) \cap DOMAIN r_tags :
                                  Contains(r_query, r_tags[x])}}

(***************************************************************************)
(* Further claims about FlagCleaner, checked under Spec.                   *)
(***************************************************************************)
\* C17: when perform_cleanup has returned, every file that get_updated_files
\* hands to write-back has code that differs from what the file holds.
C17_OnlyModified ==
  pc = "done" => \A p \in get_updated_files : relevant_files[p].code # disk[p]

\* An I/O error is met by the walk or by the read of a candidate file.
IoError ==
  \E p \in Paths :
    \/ io[p].kind = "walk_err"
    \/ HasLanguageExtension(p) /\ io[p].kind \in {"open_err", "read_err"}

\* C19: once the code base has been walked, an I/O error at an entry or at the
\* read of a file with the language's extension has aborted the cleanup.
C19_IoErrorsFatal ==
  (pass_no > 0 /\ IoError) => pc = "panic"

C20_TreeOfCode ==
  u_pc # "idle" =>
    /\ u_ast.src = u_code
    /\ u_code \in DOMAIN u_parser
    /\ u_ast.err = u_parser[u_code]

C20_Witness ==
  /\ u_pc = "step1"
  /\ u_h.tried # <<>>
  /\ u_code = u_h.entry
  /\ u_ast = [src |-> u_h.entry, err |-> "error"]

(***************************************************************************)
(* Termination of perform_cleanup, checked under FairSpec.                 *)
(***************************************************************************)
\* The rules that can still be promoted when perform_cleanup is entered.
Promotable == RuleNames \ Range(seed_rules)

\* C21: with finitely many rules that can be promoted and apply_rules calls
\* that return, perform_cleanup returns, and it has begun at most (number of
\* promotable rules + 1) passes.
C21_Terminates ==
  /\ <>(pc = "done")
  /\ [](pass_no <= Cardinality(Promotable) + 1)

\* perform_cleanup returned after as many passes as the bound allows: every
\* promotable rule was promoted in a pass of its own.
C21_Witness ==
  /\ pc = "done"
  /\ Promotable # {}
  /\ pass_no = Cardinality(Promotable) + 1

(***************************************************************************)
(* The cache of units, checked under Spec.                                 *)
(***************************************************************************)
\* C23: the cache holds one unit per path and never drops one; a unit is
\* built only on a path's first visit, from the text on disk and the store's
\* input substitutions; afterwards only an apply_rules call on that unit
\* changes its code or its substitutions, so a later visit of the path finds
\* what the earlier passes left; the files on disk are not written, and each
\* walk filters by the text on disk.
C23_OneUnitPerPath ==
  [][ /\ disk' = disk
      /\ \A p \in DOMAIN relevant_files :
           /\ p \in DOMAIN relevant_files'
           /\ relevant_files'[p] # relevant_files[p] => (pc = "engine" /\ cur = p)
      /\ \A p \in DOMAIN relevant_files' \ DOMAIN relevant_files :
           /\ pc = "for"
           /\ cur' = p
           /\ relevant_files'[p].code = disk[p]
           /\ relevant_files'[p].substitutions = rs_input_substitutions
      /\ (pc = "for" /\ pc' = "engine") => cur' \in DOMAIN relevant_files'
      /\ (pc = "loop" /\ pc' = "for") =>
           files' = [p \in CandidatesFor(global_rules) |-> disk[p]]
    ]_vars

\* In a later pass apply_rules is entered on a unit that an earlier pass
\* edited and gave a binding, for a path whose text on disk passed the filter.
C23_Witness ==
  /\ pass_no >= 2
  /\ pc = "engine"
  /\ esteps = 0
  /\ cur \in DOMAIN files
  /\ relevant_files[cur].code # disk[cur]
  /\ <<"a">> \in DOMAIN relevant_files[cur].substitutions

(***************************************************************************)
(* The order of the entries of a pass, checked under SpecOrder.            *)
(***************************************************************************)
\* One order of iteration: PathA before PathB before PathC.
PathOrder == <<PathA, PathB, PathC>>

FirstPath(S) ==
  PathOrder[CHOOSE i \in 1..Len(PathOrder) :
              PathOrder[i] \in S /\ \A j \in 1..(i - 1) : PathOrder[j] \notin S]

\* The for loop of one pass over the entries td, visited in PathOrder.
RECURSIVE ForInOrder(_, _, _)
ForInOrder(s, rules, td) ==
  IF td = {} THEN s
  ELSE LET p == FirstPath(td)
           unit == IF p \in DOMAIN s.units THEN s.units[p]
                   ELSE SourceCodeUnit_new(disk[p], s.input_substitutions)
           s1 == ProcessFile(s, rules, p, unit)
       IN  IF Len(s1.global_rules) > Len(rules) THEN s1
           ELSE ForInOrder(s1, rules, td \ {p})

\* perform_cleanup with every pass visiting its entries in PathOrder.
RECURSIVE CleanupInOrder(_)
CleanupInOrder(s) ==
  LET rules == s.global_rules
      s1 == ForInOrder(s, rules, CandidatesFor(rules))
  IN  IF Len(s1.global_rules) = Len(rules) THEN s1 ELSE CleanupInOrder(s1)

\* The code of a file at the end: that of its unit, or the text on disk.
FinalCode(units, p) == IF p \in DOMAIN units THEN units[p].code ELSE disk[p]

\* C22: when perform_cleanup has returned, the code of every file is the code
\* that the run visiting the entries of each pass in PathOrder ends with;
\* that is, every order of iteration ends with the same code.
C22_OrderIndependent ==
  pc = "done" =>
    \A p \in Paths :
      FinalCode(relevant_files, p) =
        FinalCode(CleanupInOrder([units |-> <<>>, global_rules |-> seed_rules,
                                  input_substitutions |-> SeedSubstitutions]).units, p)

(***************************************************************************)
(* An edit whose text parses without error, checked under SpecUnit.        *)
(***************************************************************************)
\* The text the running or last apply_edit made of the code before it: the
\* range of the InputEdit it returned replaced by a replacement of the length
\* the InputEdit records.
EditedTexts ==
  {Splice(u_h.before, u_ret.start_byte, u_ret.old_end_byte, repl) :
     repl \in {x \in Replacements : Len(x) = u_ret.new_end_byte - u_ret.start_byte}}

\* s is what is left of t after some of its first elements.
IsSuffix(s, t) == Len(s) <= Len(t) /\ s = SubSeq(t, Len(t) - Len(s) + 1, Len(t))

\* C24: while and after an apply_edit whose edited text the parser finds free
\* of errors, the code is that edited text and the tree is its tree, no comma
\* was tried or dropped and the regex fixes did not run, and the call returns
\* without a panic.  In any apply_edit there is one traversal: what is left
\* to visit is a tail of the nodes the traversal began with, and no more
\* nodes are tried than it yields.
C24_NoErrorNoRecovery ==
  /\ u_last \in {"edit", "applied"} =>
       \A edited \in EditedTexts :
         (edited \in DOMAIN u_parser /\ u_parser[edited] = "ok") =>
           /\ u_code = edited
           /\ u_ast = [src |-> edited, err |-> "ok"]
           /\ u_pc \in {"step2", "ready"}
           /\ u_h.tried = <<>>
           /\ ~u_h.kept
           /\ u_h.s2 # "ran"
           /\ u_iter = <<>>
  /\ u_pc \in {"step1", "step1_check"} => IsSuffix(u_iter, u_h.entry_nodes)
  /\ Len(u_h.tried) <= Len(u_h.entry_nodes)

\* apply_edit returned after an edit that changed the code into a text free
\* of errors on which the regex fixes would have changed something.
C24_Witness ==
  /\ u_last = "applied"
  /\ u_ast.err = "ok"
  /\ u_h.tried = <<>>
  /\ u_code # u_h.before
  /\ u_code \in EditedTexts
  /\ RegexFixes(u_code) # u_code

(***************************************************************************)
(* The bindings try_instantiate uses, checked under SpecRule.              *)
(***************************************************************************)
\* The bindings of the tag map whose tag is among the declared holes.
DeclaredBindings ==
  [k \in DOMAIN r_tags \cap Range(r_holes.val) |-> r_tags[k]]

\* C25: the rule of an Ok has the query and the replace template with the
\* bindings of the declared holes substituted and no others, so a binding of
\* a tag that is not a declared hole plays no part; a rule without a holes
\* list comes back with every field as it was.
C25_OnlyDeclaredHoles ==
  (r_pc = "done" /\ r_result.ok) =>
    IF r_holes.some
      THEN \E o \in KeyOrders(DeclaredBindings) :
             /\ r_result.query = substitute_tags(r_query, DeclaredBindings, o)
             /\ r_result.replace = substitute_tags(r_replace, DeclaredBindings, o)
      ELSE /\ r_result.query = r_query
           /\ r_result.replace = r_replace
           /\ r_result.holes = None
           /\ r_result.name = r_rest.name
           /\ r_result.replace_node = r_rest.replace_node
           /\ r_result.groups = r_rest.groups
           /\ r_result.constraint = r_rest.constraint
           /\ r_result.grep_heuristics = r_rest.grep_heuristics

\* A rule was instantiated whose query held @k for a bound tag k that is not
\* among its holes, and the query was changed by the bindings of its holes.
C25_Witness ==
  /\ r_pc = "done"
  /\ r_result.ok
  /\ r_holes.some
  /\ r_result.query # r_query
  /\ \E k \in DOMAIN r_tags \ Range(r_holes.val) : Contains(r_query, <<"@">> \o k)

====
